---- MODULE Spec2Model ----
(***************************************************************************)
(* A model of python-haystack's dump loader (haystack/dump_loader.py), its *)
(* address validator (haystack/utils.py) and the cache of ctypes proxies   *)
(* (haystack/types.py).                                                    *)
(*                                                                         *)
(* Text (member names, index lines, fields) is a sequence of one-character *)
(* strings, so that strip, split, int() and the substring test of the      *)
(* source are computed and not assumed.                                    *)
(***************************************************************************)
EXTENDS Integers, Sequences, FiniteSets, TLC

VARIABLES
  dumpfile,    \* the dump handed to load(): [kind, members, index], or NoDump
  lazy,        \* the lazy argument of the last load()
  outcome,     \* "none" | "ok" | the exception load() raised
  mappings,    \* the list load() returned (<<>> when nothing was returned)
  loaderAttrs, \* the attributes of the class ProcessMemoryDumpLoader
  reloaded,    \* history: the last load() repeated the load() before it
  vcall,       \* the validator's last call: [fn, addr, size]
  vresult,     \* what it returned: [valid, idx] (idx: position in mappings)
  host,        \* the widths of long, void* and long double of the host
  PROXIES,     \* types.__PROXIES: the set of [key, inst] entries
  sysctypes,   \* sys.modules['ctypes']: HostCtypes or the id of a proxy
  instances,   \* the CTypesProxy objects constructed so far
  tcall,       \* the last call into types.py: [fn, key, ret, raised]
  returned,    \* history: the [key, inst] pairs reload_ctypes has returned
  ucall,       \* the last call of container_of or is_address_local
  pcall        \* the last type handed to the predicates of a proxy

vars == <<dumpfile, lazy, outcome, mappings, loaderAttrs, reloaded,
          vcall, vresult, host, PROXIES, sysctypes, instances, tcall,
          returned, ucall, pcall>>

loaderVars == <<dumpfile, lazy, outcome, mappings, loaderAttrs, reloaded>>
validatorVars == <<vcall, vresult, ucall>>
typesVars == <<host, PROXIES, sysctypes, instances, tcall, returned, pcall>>

----------------------------------------------------------------------------
(* Bounds of the model. *)

\* index lines per dump in the loader's specification
MaxLines == 2
\* index lines (mappings) per dump in the validator's specification
MaxMaps == 2
\* addresses the validator is asked about: 0 .. MaxAddr
MaxAddr == 6
\* sizes of the types handed to the validator: 0 .. MaxSize
MaxSize == 3
\* CTypesProxy objects constructed in one run
MaxInstances == 3
\* bits of an address where container_of computes one: 0 .. 2^AddressBits - 1
AddressBits == 4

----------------------------------------------------------------------------
(* Text: Python's str.strip, str.split, the in operator, and int().        *)

WS == {" ", "\t", "\n"}

\* l.strip(): the text from its first to its last character that is not
\* white space
strip(s) ==
  LET keep == {i \in 1..Len(s) : s[i] \notin WS}
  IN IF keep = {} THEN <<>>
     ELSE SubSeq(s, CHOOSE i \in keep : \A j \in keep : i <= j,
                    CHOOSE i \in keep : \A j \in keep : j <= i)

\* the fields of s from position from on; i is the position under test
RECURSIVE SplitFrom(_, _, _, _)
SplitFrom(s, sep, from, i) ==
  IF i > Len(s) THEN <<SubSeq(s, from, Len(s))>>
  ELSE IF s[i] = sep
       THEN <<SubSeq(s, from, i - 1)>> \o SplitFrom(s, sep, i + 1, i + 1)
  ELSE SplitFrom(s, sep, from, i + 1)

\* s.split(sep) for a one-character separator: every separator splits, so
\* two adjacent separators give an empty field and ''.split(' ') is ['']
split(s, sep) == SplitFrom(s, sep, 1, 1)

\* sub in s
StrContains(sub, s) ==
  \E i \in 1..(Len(s) - Len(sub) + 1) : SubSeq(s, i, i + Len(sub) - 1) = sub

LowerDigits == <<"0","1","2","3","4","5","6","7","8","9","a","b","c","d","e","f">>
UpperDigits == <<"0","1","2","3","4","5","6","7","8","9","A","B","C","D","E","F">>

IsDigit(c, base) ==
  \E i \in 1..base : LowerDigits[i] = c \/ UpperDigits[i] = c

DigitVal(c) ==
  (CHOOSE i \in 1..16 : LowerDigits[i] = c \/ UpperDigits[i] = c) - 1

RECURSIVE DigitsVal(_, _, _)
DigitsVal(s, base, acc) ==
  IF s = <<>> THEN acc
  ELSE DigitsVal(Tail(s), base, acc * base + DigitVal(Head(s)))

PyIntError == [ok |-> FALSE, val |-> 0]

\* the digits of int(): after the optional sign and, in base 16, the
\* optional 0x prefix, at least one digit and only digits of the base
PyIntDigits(s, base, sign) ==
  LET body == IF base = 16 /\ Len(s) >= 2 /\ s[1] = "0" /\ s[2] \in {"x", "X"}
              THEN SubSeq(s, 3, Len(s)) ELSE s
  IN IF body # <<>> /\ \A i \in 1..Len(body) : IsDigit(body[i], base)
     THEN [ok |-> TRUE, val |-> sign * DigitsVal(body, base, 0)]
     ELSE PyIntError

\* int(s, base): ok is FALSE where Python raises ValueError
PyInt(s, base) ==
  LET t == strip(s)
  IN IF t = <<>> THEN PyIntError
     ELSE IF Head(t) = "-" THEN PyIntDigits(Tail(t), base, -1)
     ELSE IF Head(t) = "+" THEN PyIntDigits(Tail(t), base, 1)
     ELSE PyIntDigits(t, base, 1)

RECURSIVE HexDigitsOf(_)
HexDigitsOf(n) ==
  IF n < 16 THEN <<LowerDigits[n + 1]>>
  ELSE Append(HexDigitsOf(n \div 16), LowerDigits[(n % 16) + 1])

\* dbg.formatAddress: the address in lowercase hexadecimal behind 0x, the
\* form of the entry names that the archive probes look for ('-0x')
formatAddress(n) ==
  IF n < 0 THEN <<"0", "x", "-">> \o HexDigitsOf(-n)
  ELSE <<"0", "x">> \o HexDigitsOf(n)

----------------------------------------------------------------------------
(* memory_mapping: the mapping record and the Mappings list.               *)

\* memory_mapping.MemoryMapping(...) and its subclasses: the constructor
\* keeps its arguments; backing tells the class that was built
MemoryMapping(start, end, permissions, offset, major_device, minor_device, inode, pathname, backing) ==
  [start |-> start, end |-> end, permissions |-> permissions,
   offset |-> offset, major_device |-> major_device,
   minor_device |-> minor_device, inode |-> inode, pathname |-> pathname,
   backing |-> backing]

\* memory_mapping.Mappings(lis, name): the list as it was given
Mappings(lis) == lis

\* MemoryMapping.__contains__: addr in m, the half-open range [start, end)
InMapping(addr, m) == m.start <= addr /\ addr < m.end

----------------------------------------------------------------------------
(* dump_loader: the archive probes.                                        *)

NoDump == [kind |-> "none", members |-> {}, index |-> <<>>]

\* ProcessMemoryDumpLoader.indexFilename and .filePrefix, the class attributes
ClassAttrs ==
  [indexFilename |-> <<"m","a","p","p","i","n","g","s">>,
   filePrefix |-> <<".", "/">>]

\* a variant that takes any name with a dash for a range
mmaps_AnyDash(members) == {m \in members : StrContains(<<"-">>, m)}

\* the members kept in self.mmaps: [ m for m in members if '-0x' in m ]
mmaps(members) == {m \in members : StrContains(<<"-", "0", "x">>, m)}

\* _test_tarfile: tarfile.open raises ReadError on anything but a tar
test_tarfile(d, self) ==
  IF d.kind # "tar" THEN [ok |-> FALSE, self |-> self]
  ELSE IF (self.filePrefix \o self.indexFilename) \notin d.members
       THEN [ok |-> FALSE, self |-> self]
  ELSE [ok |-> mmaps(d.members) # {},
        self |-> [self EXCEPT
                    !.indexFilename = self.filePrefix \o self.indexFilename]]

\* _test_zipfile: zipfile.ZipFile raises BadZipfile on anything but a zip
test_zipfile(d, self) ==
  IF d.kind # "zip" THEN [ok |-> FALSE, self |-> self]
  ELSE IF self.indexFilename \notin d.members
       THEN [ok |-> FALSE, self |-> self]
  ELSE [ok |-> mmaps(d.members) # {},
        self |-> [self EXCEPT !.filePrefix = <<>>]]

\* isValid: tar first, zip second; isZip tells which archive was opened
\* self starts with the attributes of its class
isValid(d) ==
  LET t == test_tarfile(d, loaderAttrs)
  IN IF t.ok THEN [valid |-> TRUE, isZip |-> FALSE, self |-> t.self]
     ELSE LET z == test_zipfile(d, t.self)
          IN [valid |-> z.ok, isZip |-> z.ok, self |-> z.self]

\* a variant in which the probes assign to the attributes of the class
ClassAfter_Assigned(cls, self) == self

\* self.indexFilename = ... and self.filePrefix = '' bind attributes of the
\* loader object: the class keeps its own
ClassAfter(cls, self) == cls

----------------------------------------------------------------------------
(* dump_loader: loadMappings of the strict and of the lazy loader.         *)

\* the size above which the strict loader uses a file backed mapping
StrictFileThreshold == 1000000
\* the size above which the lazy loader uses a file backed mapping
LazyFileThreshold == 10000000

\* "%s-%s" % (dbg.formatAddress(start), dbg.formatAddress(end))
mmap_fname(start, end) == formatAddress(start) \o <<"-">> \o formatAddress(end)

\* a variant that reads the inode in base 16 like the other numbers
ParseLine_InodeHex(fields) ==
  IF Len(fields) # 7 THEN [ok |-> FALSE]
  ELSE LET start == PyInt(fields[1], 16)
           end == PyInt(fields[2], 16)
           offset == PyInt(fields[4], 16)
           inode == PyInt(fields[6], 16)
           devices == split(fields[5], ":")
       IN IF ~(start.ok /\ end.ok /\ offset.ok /\ inode.ok) THEN [ok |-> FALSE]
          ELSE IF Len(devices) # 2 THEN [ok |-> FALSE]
          ELSE LET major_device == PyInt(devices[1], 16)
                   minor_device == PyInt(devices[2], 16)
               IN IF ~(major_device.ok /\ minor_device.ok) THEN [ok |-> FALSE]
                  ELSE [ok |-> TRUE, start |-> start.val, end |-> end.val,
                        permissions |-> fields[3], offset |-> offset.val,
                        major_device |-> major_device.val,
                        minor_device |-> minor_device.val,
                        inode |-> inode.val, mmap_pathname |-> fields[7]]

\* the body of the for statement up to the devices: the unpacking of a line
\* into 7 names and the int() conversions; ok is FALSE where one of them
\* raises ValueError
ParseLine(fields) ==
  IF Len(fields) # 7 THEN [ok |-> FALSE]
  ELSE LET start == PyInt(fields[1], 16)
           end == PyInt(fields[2], 16)
           offset == PyInt(fields[4], 16)
           inode == PyInt(fields[6], 10)
           devices == split(fields[5], ":")
       IN IF ~(start.ok /\ end.ok /\ offset.ok /\ inode.ok) THEN [ok |-> FALSE]
          ELSE IF Len(devices) # 2 THEN [ok |-> FALSE]
          ELSE LET major_device == PyInt(devices[1], 16)
                   minor_device == PyInt(devices[2], 16)
               IN IF ~(major_device.ok /\ minor_device.ok) THEN [ok |-> FALSE]
                  ELSE [ok |-> TRUE, start |-> start.val, end |-> end.val,
                        permissions |-> fields[3], offset |-> offset.val,
                        major_device |-> major_device.val,
                        minor_device |-> minor_device.val,
                        inode |-> inode.val, mmap_pathname |-> fields[7]]

\* a variant that splits on runs of blanks, as l.split() does
metalines_SplitRuns(index) ==
  [i \in 1..Len(index) |->
     SelectSeq(split(strip(index[i]), " "), LAMBDA f : f # <<>>)]

\* self.metalines = [l.strip().split(' ') for l in mappingsFile.readlines()]
metalines(index) == [i \in 1..Len(index) |-> split(strip(index[i]), " ")]

Raised(exc) == [outcome |-> exc, mappings |-> <<>>]

\* ProcessMemoryDumpLoader.loadMappings, the for statement from line k on
RECURSIVE StrictLoop(_, _, _, _, _)
StrictLoop(d, v, lines, k, self_mappings) ==
  IF k > Len(lines)
  THEN [outcome |-> "ok", mappings |-> Mappings(self_mappings)]
  ELSE LET p == ParseLine(lines[k])
       IN IF ~p.ok THEN Raised("ValueError")
          ELSE IF (v.self.filePrefix \o mmap_fname(p.start, p.end)) \notin d.members
               THEN Raised("KeyError")
          ELSE IF v.isZip
               THEN StrictLoop(d, v, lines, k + 1, Append(self_mappings,
                      MemoryMapping(p.start, p.end, p.permissions, p.offset,
                        p.major_device, p.minor_device, p.inode,
                        p.mmap_pathname, "LocalMemoryMapping")))
          ELSE IF p.end - p.start > StrictFileThreshold
               \* the argument of log.warning: '...' + '...' % (mmap_pathname)
               \* applies % to a string without a conversion
               THEN Raised("TypeError")
          ELSE StrictLoop(d, v, lines, k + 1, Append(self_mappings,
                 MemoryMapping(p.start, p.end, p.permissions, p.offset,
                   p.major_device, p.minor_device, p.inode,
                   p.mmap_pathname, "MemoryDumpMemoryMapping")))

\* a variant without the except KeyError clause
LazyLoop_NoExcept(d, v, lines, k, self_mappings) ==
  StrictLoop(d, v, lines, k, self_mappings)

\* LazyProcessMemoryDumpLoader.loadMappings, the for statement from line k on
RECURSIVE LazyLoop(_, _, _, _, _)
LazyLoop(d, v, lines, k, self_mappings) ==
  IF k > Len(lines)
  THEN [outcome |-> "ok", mappings |-> Mappings(self_mappings)]
  ELSE LET p == ParseLine(lines[k])
       IN IF ~p.ok THEN Raised("ValueError")
          ELSE LET backing ==
                     IF (v.self.filePrefix \o mmap_fname(p.start, p.end))
                          \notin d.members
                     THEN "MemoryMapping"
                     ELSE IF v.isZip THEN "LocalMemoryMapping"
                     ELSE IF p.end - p.start > LazyFileThreshold
                          THEN "FileBackedMemoryMapping"
                     ELSE "MemoryDumpMemoryMapping"
               IN LazyLoop(d, v, lines, k + 1, Append(self_mappings,
                    MemoryMapping(p.start, p.end, p.permissions, p.offset,
                      p.major_device, p.minor_device, p.inode,
                      p.mmap_pathname, backing)))

\* MemoryDumpLoader.__init__ under load(): isValid, then loadMappings of the
\* class that lazy selects; an exception leaves load() without a result.
\* NotValid is the ValueError('memory dump not valid ...') of __init__
load(d, lz) ==
  LET v == isValid(d)
  IN IF ~v.valid THEN Raised("NotValid")
     ELSE IF lz THEN LazyLoop(d, v, metalines(d.index), 1, <<>>)
     ELSE StrictLoop(d, v, metalines(d.index), 1, <<>>)

----------------------------------------------------------------------------
(* utils: the address validator.                                           *)

\* structType=None, and a type of ctypes.sizeof s
NoneType == [isNone |-> TRUE, size |-> 0]
TypeOfSize(s) == [isNone |-> FALSE, size |-> s]

\* ctypes.sizeof(structType)
sizeof(structType) == structType.size

Invalid == [valid |-> FALSE, idx |-> 0]
Found(i) == [valid |-> TRUE, idx |-> i]

\* getaddress(obj): 0 for an object that is false (a NULL pointer) or that
\* has no contents, the address of the contents otherwise
getaddress(obj) ==
  IF obj.truthy
  THEN IF ~obj.hasContents THEN 0 ELSE obj.contents
  ELSE 0

\* for m in mappings: the statement run on the mappings from position i on
RECURSIVE ValueLoop(_, _, _, _)
ValueLoop(addr, ms, structType, i) ==
  IF i > Len(ms) THEN Invalid
  ELSE IF InMapping(addr, ms[i])
       THEN IF ~structType.isNone /\ ~InMapping(addr + sizeof(structType), ms[i])
            THEN Invalid
            ELSE Found(i)
  ELSE ValueLoop(addr, ms, structType, i + 1)

\* a variant that looks for the end of the object in any mapping of the list
is_valid_address_value_AnyMapping(addr, ms, structType) ==
  LET r == ValueLoop(addr, ms, NoneType, 1)
  IN IF r.valid /\ ~structType.isNone
        /\ ~(\E j \in 1..Len(ms) : InMapping(addr + sizeof(structType), ms[j]))
     THEN Invalid ELSE r

is_valid_address_value(addr, ms, structType) == ValueLoop(addr, ms, structType, 1)

is_valid_address(obj, ms, structType) ==
  LET addr == getaddress(obj)
  IN IF addr = 0 THEN Invalid
     ELSE is_valid_address_value(addr, ms, structType)

----------------------------------------------------------------------------
(* utils: is_address_local, offsetof and container_of.                     *)

\* the names bound in the module utils by its import statements and by
\* log = logging.getLogger('utils')
ModuleNames == {"ctypes", "pack", "unpack", "readProcessMappings", "logging", "log"}

\* memory_mapping.readProcessMappings(P()): the mappings of the running
\* process, here one mapping [1, 5)
readProcessMappings ==
  Mappings(<<MemoryMapping(1, 5, <<"r","w","-","p">>, 0, 0, 0, 0,
                           <<"[","h","e","a","p","]">>, "ProcessMemoryMapping")>>)

Returns(v) == [raised |-> "", ret |-> v]
Raises(exc) == [raised |-> exc, ret |-> 0]

\* is_address_local(obj, structType): the class statement evaluates
\* os.getpid(), and os is looked up among the names of the module
is_address_local(obj, structType) ==
  LET addr == getaddress(obj)
  IN IF addr = 0 THEN Returns(Invalid)
     ELSE IF "os" \notin ModuleNames THEN Raises("NameError")
     ELSE Returns(is_valid_address(obj, readProcessMappings, structType))

\* the field membername of the structure type typ
Field(typ, membername) ==
  typ.fields[CHOOSE i \in 1..Len(typ.fields) : typ.fields[i].name = membername]

\* ctypes.addressof(x) for the value getattr(T, membername) gives, T standing
\* at address base: a field of a fundamental type (c_int, c_void_p, ...) is
\* returned as a Python value, which addressof refuses with TypeError; a
\* field that is a structure, an array of them or of integers, or a POINTER
\* is a ctypes object inside T's buffer
addressof_member(base, f) ==
  IF f.kind = "simple" THEN Raises("TypeError") ELSE Returns(base + f.offset)

\* offsetof(typ, membername), T = typ() standing at address base:
\* addressof(getattr(T, membername)) - addressof(T)
offsetof(typ, membername, base) ==
  LET a == addressof_member(base, Field(typ, membername))
  IN IF a.raised # "" THEN a ELSE Returns(a.ret - base)

\* the addresses of the model's memory
AddressSpace == 2 ^ AddressBits

\* typ.from_address(n): the object of type typ at address n, taken as a
\* pointer of the machine: a negative n wraps around, and an n that no
\* pointer holds raises OverflowError
from_address(typ, n) ==
  IF n >= AddressSpace \/ n < -(AddressSpace \div 2) THEN Raises("OverflowError")
  ELSE Returns([type |-> typ.name, address |-> n % AddressSpace])

\* container_of(memberaddr, typ, membername)
container_of(memberaddr, typ, membername, base) ==
  LET o == offsetof(typ, membername, base)
  IN IF o.raised # "" THEN o
     ELSE from_address(typ, memberaddr - o.ret)

----------------------------------------------------------------------------
(* types: the cache of ctypes proxies and sys.modules['ctypes'].           *)

\* the module that import ctypes gives after reset_ctypes: the host's ctypes
HostCtypes == 0

\* __set_long: the host's long is kept when it has the size asked for, else
\* 4 and 8 are handled and any other size raises NotImplementedError
set_long_raises(h, longsize) ==
  h.long # longsize /\ longsize \notin {4, 8}

\* __set_pointer: the same for the size of a pointer
set_pointer_raises(h, pointersize) ==
  h.pointer # pointersize /\ pointersize \notin {4, 8}

\* CTypesProxy.__init__ raises when __init_types does: __set_long comes
\* before __set_float, which takes any size, and __set_pointer
init_raises(h, key) ==
  set_long_raises(h, key[1]) \/ set_pointer_raises(h, key[2])

\* the object CTypesProxy(longsize, pointersize, longdoublesize) constructs
NewProxy(insts, key, complete) ==
  [id |-> Cardinality(insts) + 1, longsize |-> key[1], pointersize |-> key[2],
   longdoublesize |-> key[3], complete |-> complete]

InCache(P, key) == \E e \in P : e.key = key
Cached(P, key) == (CHOOSE e \in P : e.key = key).inst

\* a variant that returns the new instance without keeping it
Store_NotKept(P, key, inst) == P

\* a variant of set_ctypes that leaves the installed module as it is
set_ctypes_Skipped(installed, ctypesproxy) == installed

\* set_ctypes, for a CTypesProxy: the module installed as ctypes after
\* sys.modules['ctypes'] = ctypesproxy
set_ctypes(installed, ctypesproxy) == ctypesproxy

\* __PROXIES[(longsize, pointersize, longdoublesize)] = instance
Store(P, key, inst) == {e \in P : e.key # key} \cup {[key |-> key, inst |-> inst]}

----------------------------------------------------------------------------
(* types: the type objects of a proxy and the predicates on them.          *)

\* A Python object as the predicates look at it: whether it is a class
\* (isinstance(objtype, type)), its identity id = <<name, owner>> (owner is
\* the id of the proxy whose code made the class, 0 for ctypes itself), the
\* class of the class (meta), the classes it inherits from (mro), and the
\* attributes _type_ and _subtype_, <<>> when the object has none.
PyObj(isType, name, owner, meta, mro, type_, subtype_) ==
  [isType |-> isType, id |-> <<name, owner>>, meta |-> meta,
   mro |-> mro \cup {<<name, owner>>}, type_ |-> type_, subtype_ |-> subtype_]

\* a class of the real ctypes module, by its name
RealId(name) == <<<<name>>, 0>>

\* a str, such as the code letter in _type_ of a fundamental type
Char(c) == PyObj(FALSE, <<c>>, 0, "str", {}, <<>>, <<>>)

\* type(None)
NoneTypeClass == PyObj(TRUE, <<"NoneType">>, 0, "type", {}, <<>>, <<>>)

\* a fundamental type of ctypes: c_int, c_char, c_void_p, ...
Simple(name, c) ==
  PyObj(TRUE, <<name>>, 0, "PyCSimpleType", {RealId("_SimpleCData")},
        <<Char(c)>>, <<>>)

c_char == Simple("c_char", "c")
c_ubyte == Simple("c_ubyte", "B")
c_int == Simple("c_int", "i")
c_double == Simple("c_double", "d")

\* the proxy inst of a process on host h, as self
Self(inst, h) ==
  [id |-> inst.id, longsize |-> inst.longsize, pointersize |-> inst.pointersize,
   longdoublesize |-> inst.longdoublesize, host |-> h]

\* self.c_long after __set_long: the host's c_long, or c_int32 (c_int) or
\* c_int64 (c_longlong) in its place
c_long(self) ==
  IF self.host.long = self.longsize THEN Simple("c_long", "l")
  ELSE IF self.longsize = 4 THEN c_int
  ELSE Simple("c_longlong", "q")

\* self.c_longdouble after __set_float: the host's c_longdouble, or the
\* class c_longdouble(Union) with _type_ = 'g'
c_longdouble(self) ==
  IF self.host.longdouble = self.longdoublesize THEN Simple("c_longdouble", "g")
  ELSE PyObj(TRUE, <<"c_longdouble">>, self.id, "UnionType", {RealId("Union")},
             <<Char("g")>>, <<>>)

\* POINTER_T(pointee) of __set_pointer: a new subclass of _SimpleCData at
\* every call (site tells the calls apart), with _type_ the code letter of
\* c_uint32 or c_uint64 and _subtype_ the pointee, type(None) for None
POINTER_T(self, pointee, clsname, site) ==
  PyObj(TRUE, <<"LP", clsname, site>>, self.id, "PyCSimpleType",
        {<<<<"_T", clsname, site>>, self.id>>, RealId("_SimpleCData")},
        <<Char(IF self.pointersize = 4 THEN "I" ELSE "Q")>>, <<pointee>>)

\* ctypes.POINTER(pointee): a subclass of _Pointer with _type_ the pointee
ctypes_POINTER(pointee) ==
  PyObj(TRUE, <<"LP">> \o pointee.id[1], pointee.id[2], "PyCPointerType",
        {RealId("_Pointer")}, <<pointee>>, <<>>)

\* self.POINTER after __set_pointer: the host's when the target's pointer
\* has the host's size, POINTER_T else
POINTER(self, pointee, site) ==
  IF self.host.pointer = self.pointersize THEN ctypes_POINTER(pointee)
  ELSE POINTER_T(self, pointee, pointee.id[1][1], site)

\* self.c_void_p and self.c_char_p after __set_pointer
c_void_p(self) ==
  IF self.host.pointer = self.pointersize THEN Simple("c_void_p", "P")
  ELSE POINTER_T(self, NoneTypeClass, "c_void", "__set_pointer")

c_char_p(self) ==
  IF self.host.pointer = self.pointersize THEN Simple("c_char_p", "z")
  ELSE POINTER_T(self, c_char, "c_char", "__set_pointer")

\* self.CString after __set_records: class CString(Union), _type_ = 's'
CString(self) ==
  PyObj(TRUE, <<"CString">>, self.id, "UnionType", {RealId("Union")},
        <<Char("s")>>, <<>>)

\* self.Structure and self.Union after __set_records, subclasses of the real
\* Structure and Union
Structure(self) ==
  PyObj(TRUE, <<"LoadableMembersStructure">>, self.id, "PyCStructType",
        {RealId("Structure")}, <<>>, <<>>)

Union(self) ==
  PyObj(TRUE, <<"LoadableMembersUnion">>, self.id, "UnionType",
        {RealId("Union")}, <<>>, <<>>)

\* class name(base): a record type of the user
Subclass(name, base) ==
  PyObj(TRUE, <<name>>, base.id[2], base.meta, base.mro, base.type_, base.subtype_)

\* element * n
ArrayOf(element) ==
  PyObj(TRUE, <<"Array">> \o element.id[1], element.id[2], "PyCArrayType",
        {RealId("Array")}, <<element>>, <<>>)

\* CFUNCTYPE(...)
CFunctionType ==
  PyObj(TRUE, <<"CFunctionType">>, 0, "PyCFuncPtrType", {RealId("CFuncPtr")},
        <<>>, <<>>)

\* self.__basic_types after __set_utils_types: the attributes of self among
\* the names of __basic_types_name (of the 17 that ctypes has, the model
\* keeps 8)
basic_types(self) ==
  {t.id : t \in {c_char, c_ubyte, c_int, c_long(self), c_double,
                 c_longdouble(self), c_char_p(self), c_void_p(self)}}

\* self.get_real_ctypes_member(typename)
get_real_ctypes_member(typename) == RealId(typename)

\* issubclass(objtype, cls), cls given by its identity
issubclass(objtype, clsid) == clsid \in objtype.mro

\* @check_arg_is_type: an argument that is no class gives False
check_arg_is_type(objtype) == objtype.isType

is_array_type(self, objtype) ==
  check_arg_is_type(objtype) /\ objtype.meta = "PyCArrayType"

is_basic_type(self, objtype) ==
  /\ check_arg_is_type(objtype)
  /\ objtype.type_ # <<>>
  /\ objtype.id \notin {c_char_p(self).id, c_void_p(self).id, CString(self).id}
  /\ objtype.id \in basic_types(self)

is_cstring_type(self, objtype) ==
  check_arg_is_type(objtype) /\ issubclass(objtype, CString(self).id)

is_function_type(self, objtype) ==
  check_arg_is_type(objtype) /\ objtype.meta = "PyCFuncPtrType"

is_pointer_type(self, objtype) ==
  /\ check_arg_is_type(objtype)
  /\ IF objtype.subtype_ # <<>> THEN TRUE
     ELSE IF objtype.type_ # <<>>
          THEN ~(is_basic_type(self, objtype) \/ is_array_type(self, objtype))
     ELSE is_function_type(self, objtype)

is_struct_type(self, objtype) ==
  /\ check_arg_is_type(objtype)
  /\ issubclass(objtype, get_real_ctypes_member("Structure"))

is_union_type(self, objtype) ==
  /\ check_arg_is_type(objtype)
  /\ IF objtype.id = c_longdouble(self).id THEN FALSE
     ELSE IF objtype.id = CString(self).id THEN FALSE
     ELSE issubclass(objtype, get_real_ctypes_member("Union"))

is_pointer_to_basic_type(self, objtype) ==
  /\ check_arg_is_type(objtype)
  /\ objtype.type_ # <<>> /\ is_basic_type(self, objtype.type_[1])

is_pointer_to_struct_type(self, objtype) ==
  /\ check_arg_is_type(objtype)
  /\ objtype.type_ # <<>> /\ is_struct_type(self, objtype.type_[1])

is_pointer_to_union_type(self, objtype) ==
  /\ check_arg_is_type(objtype)
  /\ objtype.type_ # <<>> /\ is_union_type(self, objtype.type_[1])

\* utils.isCStringPointer(obj), cls the class of obj
isCStringPointer(cls) == cls.id[1] = <<"CString">>

\* utils.isUnionType(obj), cls the class of obj; ctypes is the module that
\* utils imported, the host's
isUnionType(cls) ==
  issubclass(cls, RealId("Union")) /\ ~isCStringPointer(cls)

----------------------------------------------------------------------------
(* The dumps and the arguments the operations are run on.                  *)

RECURSIVE JoinSp(_)
JoinSp(fs) ==
  IF Len(fs) = 1 THEN fs[1] ELSE fs[1] \o <<" ">> \o JoinSp(Tail(fs))

PermRX == <<"r","-","x","p">>
PermRW == <<"r","w","-","p">>
PathBin == <<"/","b","i","n","/","x">>
PathHeap == <<"[","h","e","a","p","]">>
PathNone == <<"N","o","n","e">>
Zero == <<"0">>
Dev00 == <<"0",":","0">>

\* 1 3 r-xp 0 8:4 12 /bin/x
LineA == JoinSp(<< <<"1">>, <<"3">>, PermRX, Zero, <<"8",":","4">>, <<"1","2">>, PathBin >>)
\* 3 5 rw-p 0 0:0 0 [heap]               adjacent to LineA
LineB == JoinSp(<< <<"3">>, <<"5">>, PermRW, Zero, Dev00, Zero, PathHeap >>)
\* 2 4 rw-p 0 0:0 0 None                 overlaps LineA and LineB
LineC == JoinSp(<< <<"2">>, <<"4">>, PermRW, Zero, Dev00, Zero, PathNone >>)
\* 0 2 r-xp 0 0:0 0 None                 holds address 0, overlaps LineA
LineZ == JoinSp(<< <<"0">>, <<"2">>, PermRX, Zero, Dev00, Zero, PathNone >>)
\* 1 5 rw-p 0 0:0 0 None                 holds LineA, LineB and LineC
LineW == JoinSp(<< <<"1">>, <<"5">>, PermRW, Zero, Dev00, Zero, PathNone >>)
\* 3 1 rw-p 0 0:0 0 None                 end before start
LineInv == JoinSp(<< <<"3">>, <<"1">>, PermRW, Zero, Dev00, Zero, PathNone >>)
\* 0x0 0xf4241 rw-p 10 a:1f 7 [heap]     1,000,001 bytes, written with 0x,
\* between blanks and with its line terminator
LineBig == <<" ">> \o JoinSp(<< <<"0","x","0">>, <<"0","x","f","4","2","4","1">>, PermRW,
                   <<"1","0">>, <<"a",":","1","f">>, <<"7">>, PathHeap >>) \o <<" ", "\n">>
\* the empty line
LineBlank == <<"\n">>
\* 1 3 r-xp 0 8:4 12 /bin/x x            a pathname with a space
LineSpacePath == LineA \o <<" ", "x">>
\* 1  3 r-xp 0 8:4 12 /bin/x             two spaces after the first field
LineRun == JoinSp(<< <<"1">>, <<>>, <<"3">>, PermRX, Zero, <<"8",":","4">>, <<"1","2">>, PathBin >>)
\* g 3 r-xp 0 8:4 12 /bin/x              start is not hexadecimal
LineBadStart == JoinSp(<< <<"g">>, <<"3">>, PermRX, Zero, <<"8",":","4">>, <<"1","2">>, PathBin >>)
\* 1 3 r-xp 0 8:4 1a /bin/x              inode is hexadecimal, not decimal
LineBadInode == JoinSp(<< <<"1">>, <<"3">>, PermRX, Zero, <<"8",":","4">>, <<"1","a">>, PathBin >>)
\* 1 3 r-xp 0 8:z 12 /bin/x              minor device is not hexadecimal
LineBadDev == JoinSp(<< <<"1">>, <<"3">>, PermRX, Zero, <<"8",":","z">>, <<"1","2">>, PathBin >>)

GoodLines == {LineA, LineC, LineInv, LineBig}
BadLines == {LineBlank, LineSpacePath, LineRun, LineBadStart, LineBadInode, LineBadDev}

SeqsUpTo(S, n) == UNION {[1..k -> S] : k \in 0..n}

\* the entry names of the ranges of the lines above, behind a prefix
EntryNames(prefix) ==
  {prefix \o mmap_fname(r[1], r[2]) :
     r \in {<<0, 2>>, <<1, 3>>, <<3, 5>>, <<2, 4>>, <<1, 5>>, <<3, 1>>,
           <<0, 1000001>>}}

IndexName == <<"m","a","p","p","i","n","g","s">>
DotSlash == <<".", "/">>
\* 1-3: the range of LineA without 0x
PlainName == <<"1", "-", "3">>

\* the content entries of a dump: none, those of a partial and of a full
\* dump as a tar names them, those of a full dump as a zip names them, and
\* entries named without 0x
ContentSets ==
  { {},
    {DotSlash \o mmap_fname(1, 3)},
    EntryNames(DotSlash),
    EntryNames(<<>>),
    {DotSlash \o PlainName, PlainName} }

\* a dump is a tar or a zip with its members, or another file; the index
\* lines are the content of its index entry
LoaderDumps ==
  { [kind |-> k, members |-> {ix} \cup cs, index |-> lines] :
      k \in {"tar", "zip"}, ix \in {DotSlash \o IndexName, IndexName},
      cs \in ContentSets, lines \in SeqsUpTo(GoodLines \cup BadLines, MaxLines) }
  \cup { [kind |-> k, members |-> cs, index |-> <<>>] :
           k \in {"tar", "zip"}, cs \in ContentSets }
  \cup { [kind |-> "other", members |-> {}, index |-> <<>>] }

\* the dumps of the validator's runs: a tar with its index and every entry
ValidatorDumps ==
  { [kind |-> "tar", members |-> {DotSlash \o IndexName} \cup EntryNames(DotSlash),
     index |-> lines] :
      lines \in SeqsUpTo({LineZ, LineA, LineB, LineC, LineW}, MaxMaps) }

NoObject == [truthy |-> FALSE, hasContents |-> FALSE, contents |-> 0]

\* a NULL pointer, an object that is no pointer, and pointers to 1..MaxAddr
Objects ==
  {[truthy |-> FALSE, hasContents |-> TRUE, contents |-> 0],
   [truthy |-> TRUE, hasContents |-> FALSE, contents |-> 0]}
  \cup {[truthy |-> TRUE, hasContents |-> TRUE, contents |-> a] : a \in 1..MaxAddr}

StructTypes == {NoneType} \cup {TypeOfSize(s) : s \in 0..MaxSize}

\* struct list_head { struct list_head *next, *prev; }
ListHead ==
  [name |-> "list_head",
   fields |-> << [name |-> "next", kind |-> "pointer", offset |-> 0],
                 [name |-> "prev", kind |-> "pointer", offset |-> 1] >>]

\* struct node { int value; struct list_head list; int ids[2]; }
Node ==
  [name |-> "node",
   fields |-> << [name |-> "value", kind |-> "simple", offset |-> 0],
                 [name |-> "list", kind |-> "struct", offset |-> 1],
                 [name |-> "ids", kind |-> "array", offset |-> 3] >>]

RecordTypes == {ListHead, Node}

\* the dumps of the runs of container_of: a tar with its index and entries
UtilsDumps ==
  { [kind |-> "tar", members |-> {DotSlash \o IndexName} \cup EntryNames(DotSlash),
     index |-> lines] : lines \in SeqsUpTo({LineA, LineB}, MaxMaps) }

\* the types handed to the predicates of proxy self, each with what it is
\* (what) and, for a pointer, what it points to (pointee): the scalars, the
\* long double and the string types of the proxy, a structure and a union of
\* the user, arrays, pointers from self.POINTER, a function type, and an
\* object that is no type
Sample(t, what, pointee) == [t |-> t, what |-> what, pointee |-> pointee]

TypeSamples(self) ==
  LET S == Subclass("S", Structure(self))
      U == Subclass("U", Union(self))
  IN { Sample(c_int, "scalar", "none"),
       Sample(c_char, "scalar", "none"),
       Sample(c_long(self), "scalar", "none"),
       Sample(c_longdouble(self), "longdouble", "none"),
       Sample(c_void_p(self), "pointer", "void"),
       Sample(c_char_p(self), "pointer", "char"),
       Sample(CString(self), "cstring", "none"),
       Sample(S, "struct", "none"),
       Sample(U, "union", "none"),
       Sample(ArrayOf(c_int), "array", "none"),
       Sample(ArrayOf(S), "array", "none"),
       Sample(POINTER(self, c_int, "user"), "pointer", "scalar"),
       Sample(POINTER(self, S, "user"), "pointer", "struct"),
       Sample(POINTER(self, U, "user"), "pointer", "union"),
       Sample(CFunctionType, "function", "none"),
       Sample(Char("x"), "nontype", "none") }

----------------------------------------------------------------------------
(* The state machine.                                                      *)

NoCall == [fn |-> "none", key |-> <<>>, ret |-> 0, raised |-> ""]
NoUtilCall == [fn |-> "none"]
NoPredCall == [fn |-> "none"]

Host32 == [long |-> 4, pointer |-> 4, longdouble |-> 12]
Host64 == [long |-> 8, pointer |-> 8, longdouble |-> 16]

Init ==
  /\ dumpfile = NoDump
  /\ lazy = FALSE
  /\ outcome = "none"
  /\ mappings = <<>>
  /\ loaderAttrs = ClassAttrs
  /\ reloaded = FALSE
  /\ vcall = [fn |-> "none", obj |-> NoObject, addr |-> 0, type |-> NoneType]
  /\ vresult = Invalid
  /\ ucall = NoUtilCall
  /\ pcall = NoPredCall
  /\ host = Host64
  /\ PROXIES = {}
  /\ sysctypes = HostCtypes
  /\ instances = {}
  /\ tcall = NoCall
  /\ returned = {}

\* the dump file of the session is chosen
OpenDump(d) ==
  /\ dumpfile = NoDump
  /\ dumpfile' = d
  /\ UNCHANGED <<lazy, outcome, mappings, loaderAttrs, reloaded,
                 validatorVars, typesVars>>

\* load(dumpfile, lazy)
Load(lz) ==
  /\ dumpfile # NoDump
  /\ LET r == load(dumpfile, lz)
     IN /\ lazy' = lz
        /\ outcome' = r.outcome
        /\ mappings' = r.mappings
  /\ loaderAttrs' = ClassAfter(loaderAttrs, isValid(dumpfile).self)
  /\ reloaded' = (outcome # "none" /\ lz = lazy)
  /\ UNCHANGED <<dumpfile, validatorVars, typesVars>>

\* is_valid_address(obj, mappings, structType) on the loaded mappings
IsValidAddress(obj, structType) ==
  /\ outcome = "ok"
  /\ vcall' = [fn |-> "is_valid_address", obj |-> obj, addr |-> getaddress(obj),
               type |-> structType]
  /\ vresult' = is_valid_address(obj, mappings, structType)
  /\ UNCHANGED <<ucall, loaderVars, typesVars>>

\* is_valid_address_value(addr, mappings, structType) on the loaded mappings
IsValidAddressValue(addr, structType) ==
  /\ outcome = "ok"
  /\ vcall' = [fn |-> "is_valid_address_value", obj |-> NoObject, addr |-> addr,
               type |-> structType]
  /\ vresult' = is_valid_address_value(addr, mappings, structType)
  /\ UNCHANGED <<ucall, loaderVars, typesVars>>

\* reload_ctypes(longsize, pointersize, longdoublesize)
ReloadCtypes(longsize, pointersize, longdoublesize) ==
  LET key == <<longsize, pointersize, longdoublesize>>
  IN IF InCache(PROXIES, key)
     THEN \* the cached instance goes through set_ctypes and is returned
          /\ sysctypes' = set_ctypes(sysctypes, Cached(PROXIES, key))
          /\ tcall' = [fn |-> "reload_ctypes", key |-> key,
                       ret |-> Cached(PROXIES, key), raised |-> ""]
          /\ returned' = returned \cup {[key |-> key, inst |-> Cached(PROXIES, key)]}
          /\ UNCHANGED <<host, PROXIES, instances, pcall, loaderVars,
                         validatorVars>>
     ELSE /\ Cardinality(instances) < MaxInstances
          /\ LET inst == NewProxy(instances, key, ~init_raises(host, key))
             IN \* __init__ installs the new object before __init_types runs
                /\ instances' = instances \cup {inst}
                /\ sysctypes' = inst.id
                /\ IF init_raises(host, key)
                   THEN /\ tcall' = [fn |-> "reload_ctypes", key |-> key, ret |-> 0,
                                     raised |-> "NotImplementedError"]
                        /\ UNCHANGED <<PROXIES, returned>>
                   ELSE /\ PROXIES' = Store(PROXIES, key, inst.id)
                        /\ tcall' = [fn |-> "reload_ctypes", key |-> key,
                                     ret |-> inst.id, raised |-> ""]
                        /\ returned' = returned \cup {[key |-> key, inst |-> inst.id]}
          /\ UNCHANGED <<host, pcall, loaderVars, validatorVars>>

\* set_ctypes(ctypesproxy): arg is the id of a CTypesProxy object, or
\* HostCtypes for an argument that is no CTypesProxy
SetCtypes(arg) ==
  /\ IF arg = HostCtypes
     THEN /\ tcall' = [fn |-> "set_ctypes", key |-> <<>>, ret |-> 0,
                       raised |-> "TypeError"]
          /\ UNCHANGED sysctypes
     ELSE /\ sysctypes' = set_ctypes(sysctypes, arg)
          /\ tcall' = [fn |-> "set_ctypes", key |-> <<>>, ret |-> arg, raised |-> ""]
  /\ UNCHANGED <<host, PROXIES, instances, returned, pcall, loaderVars,
                 validatorVars>>

\* reset_ctypes()
ResetCtypes ==
  /\ sysctypes' = HostCtypes
  /\ tcall' = [fn |-> "reset_ctypes", key |-> <<>>, ret |-> HostCtypes, raised |-> ""]
  /\ UNCHANGED <<host, PROXIES, instances, returned, pcall, loaderVars,
                 validatorVars>>

\* is_address_local(obj, structType)
IsAddressLocal(obj, structType) ==
  /\ ucall' = [fn |-> "is_address_local", addr |-> getaddress(obj),
               res |-> is_address_local(obj, structType)]
  /\ UNCHANGED <<vcall, vresult, loaderVars, typesVars>>

\* container_of(A + k, typ, membername) for the member at offset k of an
\* object of type typ at address A; offsetof builds its own typ() at base
ContainerOf(A, typ, membername, base) ==
  /\ ucall' = [fn |-> "container_of", A |-> A, typ |-> typ.name,
               member |-> membername, kind |-> Field(typ, membername).kind,
               res |-> container_of(A + Field(typ, membername).offset, typ,
                                    membername, base)]
  /\ UNCHANGED <<vcall, vresult, loaderVars, typesVars>>

\* the predicates of the proxy inst, applied to one type
Predicates(inst, sample) ==
  /\ \E e \in PROXIES : e.inst = inst.id
  /\ LET self == Self(inst, host)
         t == sample.t
     IN pcall' = [fn |-> "predicates", inst |-> inst.id, name |-> t.id[1],
                  what |-> sample.what, pointee |-> sample.pointee,
                  nativePointer |-> (host.pointer = inst.pointersize),
                  nativeFloat |-> (host.longdouble = inst.longdoublesize),
                  is_basic_type |-> is_basic_type(self, t),
                  is_pointer_type |-> is_pointer_type(self, t),
                  is_array_type |-> is_array_type(self, t),
                  is_struct_type |-> is_struct_type(self, t),
                  is_union_type |-> is_union_type(self, t),
                  is_cstring_type |-> is_cstring_type(self, t),
                  is_pointer_to_basic_type |-> is_pointer_to_basic_type(self, t),
                  is_pointer_to_struct_type |-> is_pointer_to_struct_type(self, t),
                  is_pointer_to_union_type |-> is_pointer_to_union_type(self, t),
                  isUnionType |-> isUnionType(t)]
  /\ UNCHANGED <<host, PROXIES, sysctypes, instances, tcall, returned,
                 loaderVars, validatorVars>>

LoaderNext ==
  \/ \E d \in LoaderDumps : OpenDump(d)
  \/ \E lz \in BOOLEAN : Load(lz)

SpecLoader == Init /\ [][LoaderNext]_vars

ValidatorNext ==
  \/ \E d \in ValidatorDumps : OpenDump(d)
  \/ Load(TRUE)
  \/ \E obj \in Objects, t \in StructTypes : IsValidAddress(obj, t)
  \/ \E a \in 0..MaxAddr, t \in StructTypes : IsValidAddressValue(a, t)

SpecValidator == Init /\ [][ValidatorNext]_vars

UtilsNext ==
  \/ \E d \in UtilsDumps : OpenDump(d)
  \/ Load(TRUE)
  \/ \E obj \in Objects, t \in StructTypes : IsAddressLocal(obj, t)
  \/ \E A \in (-2)..MaxAddr, typ \in RecordTypes, base \in 1..2 :
       \E i \in 1..Len(typ.fields) : ContainerOf(A, typ, typ.fields[i].name, base)

SpecUtils == Init /\ [][UtilsNext]_vars

LongSizes == {2, 4, 8}
PointerSizes == {4, 8}
\* 3 is a width no long double has
LongDoubleSizes == {3, 16}

\* the analysis runs on a 32 bit or on a 64 bit host
TypesInit ==
  /\ dumpfile = NoDump
  /\ lazy = FALSE
  /\ outcome = "none"
  /\ mappings = <<>>
  /\ loaderAttrs = ClassAttrs
  /\ reloaded = FALSE
  /\ vcall = [fn |-> "none", obj |-> NoObject, addr |-> 0, type |-> NoneType]
  /\ vresult = Invalid
  /\ ucall = NoUtilCall
  /\ pcall = NoPredCall
  /\ host \in {Host32, Host64}
  /\ PROXIES = {}
  /\ sysctypes = HostCtypes
  /\ instances = {}
  /\ tcall = NoCall
  /\ returned = {}

TypesNext ==
  \/ \E l \in LongSizes, p \in PointerSizes, ld \in LongDoubleSizes :
       ReloadCtypes(l, p, ld)
  \/ \E arg \in {HostCtypes} \cup {i.id : i \in instances} : SetCtypes(arg)
  \/ ResetCtypes

SpecTypes == TypesInit /\ [][TypesNext]_vars

\* the profiles the predicates are run under: ILP32 and LP64, each with a
\* long double of 12 and of 16 bytes
PredicateKeys == {<<4, 4, 12>>, <<4, 4, 16>>, <<8, 8, 12>>, <<8, 8, 16>>}

PredicatesNext ==
  \/ \E key \in PredicateKeys : ReloadCtypes(key[1], key[2], key[3])
  \/ \E inst \in instances :
       \E sample \in TypeSamples(Self(inst, host)) : Predicates(inst, sample)

SpecPredicates == TypesInit /\ [][PredicatesNext]_vars

----------------------------------------------------------------------------
(* The address validator's claims, under SpecValidator.                    *)

Validated == vcall.fn \in {"is_valid_address", "is_valid_address_value"}

\* the positions of the mappings whose range [start, end) holds address a
Holding(a) == {i \in 1..Len(mappings) : mappings[i].start <= a /\ a < mappings[i].end}

\* the mapping the lookup reaches for a: the first of the list that holds it
FirstHolding(a) == CHOOSE i \in Holding(a) : \A j \in Holding(a) : i <= j

Disjoint(ms) ==
  \A i, j \in 1..Len(ms) :
    i # j => (ms[i].end <= ms[j].start \/ ms[j].end <= ms[i].start)

\* C1: validating address 0 yields the invalid outcome, whatever the mappings
\* and the type, from is_valid_address and from is_valid_address_value.
C1_NullIsInvalid ==
  (Validated /\ vcall.addr = 0) => ~vresult.valid

\* C2: for a non-zero address a held by a mapping m (the mapping the lookup
\* reaches for a) and a type of size s, a + s beyond m.end gives the invalid
\* outcome, also when another mapping starts at m.end and holds a + s; and no
\* returned mapping ends before a + s.
C2_OverflowIsInvalid ==
  (Validated /\ vcall.addr # 0 /\ ~vcall.type.isNone) =>
    /\ (Holding(vcall.addr) # {} /\
        vcall.addr + vcall.type.size > mappings[FirstHolding(vcall.addr)].end)
          => ~vresult.valid
    /\ vresult.valid => vcall.addr + vcall.type.size <= mappings[vresult.idx].end

\* C2's case: the object starts in one mapping and ends in the adjacent one
C2_Witness ==
  /\ Validated /\ vcall.addr # 0 /\ ~vcall.type.isNone
  /\ Len(mappings) = 2 /\ Disjoint(mappings)
  /\ \E i, j \in 1..2 :
       /\ mappings[j].start = mappings[i].end
       /\ i \in Holding(vcall.addr)
       /\ j \in Holding(vcall.addr + vcall.type.size)
       /\ vcall.addr + vcall.type.size > mappings[i].end
  /\ ~vresult.valid

\* C3: for a non-zero address a and a type of size s, a mapping m of a set of
\* disjoint mappings with m.start <= a and a + s <= m.end (a + s = m.end
\* included) is returned.
C3_FittingIsReturned ==
  (Validated /\ vcall.addr # 0 /\ ~vcall.type.isNone /\ Disjoint(mappings)) =>
    \A i \in 1..Len(mappings) :
      (mappings[i].start <= vcall.addr /\
       vcall.addr + vcall.type.size <= mappings[i].end)
        => vresult = Found(i)

\* C4: for a non-zero address, no mapping holding it gives the invalid
\* outcome, and a returned mapping holds the address and is the only mapping
\* of the set that holds it.
C4_UniqueHolder ==
  (Validated /\ vcall.addr # 0) =>
    /\ Holding(vcall.addr) = {} => ~vresult.valid
    /\ vresult.valid => Holding(vcall.addr) = {vresult.idx}

----------------------------------------------------------------------------
(* The dump loader's claims, under SpecLoader.                             *)

Loaded == outcome # "none"

HexChars == {"0","1","2","3","4","5","6","7","8","9","a","b","c","d","e","f",
             "A","B","C","D","E","F"}
DecChars == {"0","1","2","3","4","5","6","7","8","9"}

\* a hexadecimal number, with or without 0x
IsHexText(s) ==
  LET b == IF Len(s) >= 2 /\ s[1] = "0" /\ s[2] = "x" THEN SubSeq(s, 3, Len(s)) ELSE s
  IN b # <<>> /\ \A i \in 1..Len(b) : b[i] \in HexChars

IsDecText(s) == s # <<>> /\ \A i \in 1..Len(s) : s[i] \in DecChars

\* the fields of an index line: the line without the blanks and the line
\* terminator around it, cut at every space
Fields(line) == split(strip(line), " ")

\* a structural error of an index line
Malformed(line) ==
  LET f == Fields(line)
  IN \/ Len(f) # 7
     \/ ~IsHexText(f[1]) \/ ~IsHexText(f[2]) \/ ~IsHexText(f[4])
     \/ ~IsDecText(f[6])
     \/ LET dv == split(f[5], ":")
        IN Len(dv) # 2 \/ ~IsHexText(dv[1]) \/ ~IsHexText(dv[2])

\* what the well-formed lines of the model say, read by hand
Decoded(line) ==
  CASE line = LineA ->
         [start |-> 1, end |-> 3, permissions |-> PermRX, offset |-> 0,
          major_device |-> 8, minor_device |-> 4, inode |-> 12,
          pathname |-> PathBin]
    [] line = LineC ->
         [start |-> 2, end |-> 4, permissions |-> PermRW, offset |-> 0,
          major_device |-> 0, minor_device |-> 0, inode |-> 0,
          pathname |-> PathNone]
    [] line = LineInv ->
         [start |-> 3, end |-> 1, permissions |-> PermRW, offset |-> 0,
          major_device |-> 0, minor_device |-> 0, inode |-> 0,
          pathname |-> PathNone]
    [] line = LineBig ->
         [start |-> 0, end |-> 1000001, permissions |-> PermRW, offset |-> 16,
          major_device |-> 10, minor_device |-> 31, inode |-> 7,
          pathname |-> PathHeap]

SameMetadata(m, dec) ==
  /\ m.start = dec.start /\ m.end = dec.end
  /\ m.permissions = dec.permissions /\ m.offset = dec.offset
  /\ m.major_device = dec.major_device /\ m.minor_device = dec.minor_device
  /\ m.inode = dec.inode /\ m.pathname = dec.pathname

HasDash0x(name) ==
  \E i \in 1..(Len(name) - 2) :
    name[i] = "-" /\ name[i + 1] = "0" /\ name[i + 2] = "x"

\* a tar with the entry ./mappings, or a zip with the entry mappings, and a
\* member whose name holds -0x
Recognized(d) ==
  /\ \/ d.kind = "tar" /\ (DotSlash \o IndexName) \in d.members
     \/ d.kind = "zip" /\ IndexName \in d.members
  /\ \E m \in d.members : HasDash0x(m)

\* the name of the content entry of a well-formed line in dump d
ContentName(d, line) ==
  (IF d.kind = "zip" THEN <<>> ELSE DotSlash)
    \o mmap_fname(Decoded(line).start, Decoded(line).end)

\* the well-formed lines of d's index whose content entry is absent
AbsentLines(d) ==
  {i \in 1..Len(d.index) :
     ~Malformed(d.index[i]) /\ ContentName(d, d.index[i]) \notin d.members}

\* C5: when the index lists a mapping whose content entry is absent, the
\* strict load fails and returns nothing; the lazy load of a recognized dump
\* with a well-formed index succeeds, with one mapping per line, the mapping
\* of an absent entry carrying the line's range, permissions and pathname
\* and no content, the others carrying content.
C5_AbsentContent ==
  (Loaded /\ AbsentLines(dumpfile) # {}) =>
    /\ ~lazy => (outcome # "ok" /\ mappings = <<>>)
    /\ (lazy /\ Recognized(dumpfile)
        /\ \A i \in 1..Len(dumpfile.index) : ~Malformed(dumpfile.index[i]))
       => /\ outcome = "ok"
          /\ Len(mappings) = Len(dumpfile.index)
          /\ \A i \in 1..Len(mappings) :
               LET dec == Decoded(dumpfile.index[i])
               IN IF i \in AbsentLines(dumpfile)
                  THEN /\ mappings[i].backing = "MemoryMapping"
                       /\ mappings[i].start = dec.start
                       /\ mappings[i].end = dec.end
                       /\ mappings[i].permissions = dec.permissions
                       /\ mappings[i].pathname = dec.pathname
                  ELSE mappings[i].backing # "MemoryMapping"

\* C5's case: a lazy load returned a mapping without content beside one with
C5_Witness ==
  /\ outcome = "ok" /\ lazy
  /\ \E i, j \in 1..Len(mappings) :
       /\ i \in AbsentLines(dumpfile) /\ mappings[i].backing = "MemoryMapping"
       /\ j \notin AbsentLines(dumpfile) /\ mappings[j].backing # "MemoryMapping"

\* C6: a successful load, strict or lazy, returns one mapping per index line
\* in the order of the lines, each with the start, end, permissions, offset,
\* devices, inode and pathname of its line.
C6_OnePerLineInOrder ==
  outcome = "ok" =>
    /\ Len(mappings) = Len(dumpfile.index)
    /\ \A i \in 1..Len(mappings) :
         /\ ~Malformed(dumpfile.index[i])
         /\ SameMetadata(mappings[i], Decoded(dumpfile.index[i]))

\* C6's case: two lines not in address order, the second without content,
\* loaded into two mappings
C6_Witness ==
  /\ outcome = "ok" /\ Len(mappings) = 2
  /\ mappings[1].start > mappings[2].start
  /\ mappings[1].inode # mappings[2].inode
  /\ 2 \in AbsentLines(dumpfile)

\* C7: in every returned list each mapping has start < end and no two
\* mappings overlap.
C7_RangesWellFormed ==
  outcome = "ok" =>
    /\ \A i \in 1..Len(mappings) : mappings[i].start < mappings[i].end
    /\ Disjoint(mappings)

\* C8: a load, strict or lazy, of a dump whose index has a structural error
\* in some line fails and returns nothing, the mappings of the lines before
\* it included.
C8_MalformedAborts ==
  (Loaded /\ \E i \in 1..Len(dumpfile.index) : Malformed(dumpfile.index[i]))
    => (outcome # "ok" /\ mappings = <<>>)

\* C8's case: a recognized dump whose first line is well-formed with its
\* content present and whose second line is malformed, loaded lazily
C8_Witness ==
  /\ Loaded /\ lazy /\ Recognized(dumpfile)
  /\ Len(dumpfile.index) = 2
  /\ ~Malformed(dumpfile.index[1]) /\ 1 \notin AbsentLines(dumpfile)
  /\ Malformed(dumpfile.index[2])
  /\ outcome = "ValueError"

LowerHexChars == {"0","1","2","3","4","5","6","7","8","9","a","b","c","d","e","f"}

\* a name of the form <start-hex>-<end-hex>, lowercase and without 0x
IsPlainRange(name) ==
  \E k \in 2..(Len(name) - 1) :
    /\ name[k] = "-"
    /\ \A i \in 1..Len(name) : i # k => name[i] \in LowerHexChars

\* a member name without the ./ a tar puts before it
Base(name) ==
  IF Len(name) >= 2 /\ name[1] = "." /\ name[2] = "/"
  THEN SubSeq(name, 3, Len(name)) ELSE name

C17_BackingChoice ==
  (/\ Loaded /\ Recognized(dumpfile)
   /\ \A i \in 1..Len(dumpfile.index) : ~Malformed(dumpfile.index[i])
   /\ ~lazy => AbsentLines(dumpfile) = {})
  => /\ outcome = "ok"
     /\ \A i \in 1..Len(mappings) :
          i \notin AbsentLines(dumpfile) =>
            mappings[i].backing =
              IF dumpfile.kind = "zip" THEN "LocalMemoryMapping"
              ELSE IF mappings[i].end - mappings[i].start
                        > (IF lazy THEN 10000000 ELSE 1000000)
                   THEN "FileBackedMemoryMapping"
              ELSE "MemoryDumpMemoryMapping"

\* C18: the mappings of every returned list are in ascending order of their
\* start address, whatever the order of the index lines.
C18_SortedByStart ==
  outcome = "ok" =>
    \A i \in 1..(Len(mappings) - 1) : mappings[i].start <= mappings[i + 1].start

----------------------------------------------------------------------------
(* The claims about the cache of ctypes proxies, under SpecTypes.          *)

\* C10: every call of reload_ctypes with one triple of widths returns the
\* same CTypesProxy object, whatever calls of reload_ctypes with other
\* triples, of set_ctypes and of reset_ctypes come between, and calls with
\* different triples return different objects.
C10_SameTripleSameInstance ==
  /\ \A p, q \in returned : (p.key = q.key) <=> (p.inst = q.inst)
  /\ (tcall.fn = "reload_ctypes" /\ tcall.raised = "") =>
       [key |-> tcall.key, inst |-> tcall.ret] \in returned

\* C10's case: a triple is asked for again after another triple was built
\* and the installed module was changed, and the call returns the object of
\* the first call while another object is installed for the other triple
C10_Witness ==
  /\ tcall.fn = "reload_ctypes" /\ tcall.raised = ""
  /\ Cardinality(returned) = 2
  /\ Cardinality(instances) = 2
  /\ tcall.ret = 1
  /\ \E q \in returned : q.inst = 2 /\ q.key # tcall.key

\* C11: a call of reload_ctypes leaves the module installed as ctypes as it
\* was: no process-wide state changes when a profile is built or fetched.
C11_ReloadLeavesModule ==
  [][tcall'.fn = "reload_ctypes" => sysctypes' = sysctypes]_vars

\* C12: every profile in the cache has a long and a pointer of width 4 or 8
\* and a long double of a supported width (8, 10, 12 or 16), and a call of
\* reload_ctypes with another width raises and returns no profile.
C12_WidthsSupported ==
  /\ \A e \in PROXIES :
       /\ e.key[1] \in {4, 8} /\ e.key[2] \in {4, 8}
       /\ e.key[3] \in {8, 10, 12, 16}
  /\ (/\ tcall.fn = "reload_ctypes"
      /\ \/ tcall.key[1] \notin {4, 8} \/ tcall.key[2] \notin {4, 8}
         \/ tcall.key[3] \notin {8, 10, 12, 16})
     => (tcall.raised # "" /\ tcall.ret = 0)

\* C21: after every call of reload_ctypes that succeeds, on a cache miss and
\* on a cache hit and after any calls of reload_ctypes, set_ctypes and
\* reset_ctypes before it, the module installed as ctypes is the object the
\* call returned, a completely initialized proxy kept in the cache under
\* the triple asked for; and after reset_ctypes the installed module is the
\* host's ctypes and the cache is as it was.
C21_InstalledIsReturned ==
  [][/\ (tcall'.fn = "reload_ctypes" /\ tcall'.raised = "") =>
          /\ sysctypes' = tcall'.ret
          /\ \E i \in instances' : i.id = tcall'.ret /\ i.complete
          /\ [key |-> tcall'.key, inst |-> tcall'.ret] \in PROXIES'
     /\ tcall'.fn = "reset_ctypes" =>
          /\ sysctypes' = HostCtypes
          /\ PROXIES' = PROXIES]_vars

\* C21's case: a cache hit after the installed module was changed: two
\* profiles are in the cache, the second one built after the first, and a
\* call for the triple of the first returns and installs the first
C21_Witness ==
  /\ tcall.fn = "reload_ctypes" /\ tcall.raised = ""
  /\ Cardinality(PROXIES) = 2
  /\ \E e \in PROXIES : e.inst > tcall.ret
  /\ sysctypes = tcall.ret

\* the other case of C21 as a predicate of the state after the call: after
\* reset_ctypes the module installed as ctypes is the host's ctypes
C21_ResetKeepsCache ==
  tcall.fn = "reset_ctypes" => sysctypes = HostCtypes

\* C22: a call that raises leaves the state as it was: when reload_ctypes
\* raises NotImplementedError for a width it does not handle, or set_ctypes
\* raises TypeError for an argument that is no proxy, the cache gets no
\* entry and the module installed as ctypes is the one installed before the
\* call, never a partially initialized proxy.
C22_FailureLeavesState ==
  [][tcall'.raised # "" => (PROXIES' = PROXIES /\ sysctypes' = sysctypes)]_vars

\* the part of C22 that holds: no call that raises adds an entry to the
\* cache, no object that is not completely initialized is in the cache, and
\* set_ctypes with an argument that is no proxy leaves the installed module
C22_FailureLeavesCache ==
  [][/\ tcall'.raised # "" => PROXIES' = PROXIES
     /\ \A e \in PROXIES' : \E i \in instances' : i.id = e.inst /\ i.complete
     /\ (tcall'.fn = "set_ctypes" /\ tcall'.raised # "") => sysctypes' = sysctypes]_vars

\* the state C22 excludes: the module installed as ctypes is a proxy whose
\* initialization raised
C22_PartialProxyNeverInstalled ==
  \A i \in instances : i.id = sysctypes => i.complete

----------------------------------------------------------------------------
(* The claims about container_of and is_address_local, under SpecUtils.    *)

\* C14: for every structure type, every field of it at offset k and every
\* address A, container_of(A + k, type, field) gives the object at address A,
\* by arithmetic alone: it gives it whether A is mapped or not, for A = 0,
\* and when A is below zero (where the address wraps around).
C14_ContainerOfRoundTrip ==
  ucall.fn = "container_of" =>
    /\ ucall.res.raised = ""
    /\ ucall.res.ret.type = ucall.typ
    /\ ucall.A >= 0 => ucall.res.ret.address = ucall.A
    /\ ucall.A < 0 => ucall.res.ret.address = ucall.A + AddressSpace

\* the part of C14 that holds: a member that is itself a structure, an array
\* or a pointer
C14_RecordMembersRoundTrip ==
  (ucall.fn = "container_of" /\ ucall.kind # "simple") =>
    /\ ucall.res.raised = ""
    /\ ucall.A >= 0 => ucall.res.ret.address = ucall.A

\* C15: is_address_local, like is_valid_address and is_valid_address_value,
\* ends by returning a mapping or the invalid value and never raises.
C15_NeverRaises ==
  ucall.fn = "is_address_local" => ucall.res.raised = ""

----------------------------------------------------------------------------
(* The claims about the type predicates, under SpecPredicates.             *)

Classified == pcall.fn = "predicates"

\* C13: is-union is false for the long double and for the CString of the
\* profile and true for every other union, under every profile, whether the
\* long double has the host's width or not; for the predicate of the proxy
\* and for utils.isUnionType.
C13_UnionExclusions ==
  Classified =>
    /\ pcall.what \in {"longdouble", "cstring"} =>
         (~pcall.is_union_type /\ ~pcall.isUnionType)
    /\ pcall.what = "union" => (pcall.is_union_type /\ pcall.isUnionType)

\* the part of C13 that holds: the predicate is_union_type of the proxy
C13_ProxyUnionExclusions ==
  Classified =>
    /\ pcall.what \in {"longdouble", "cstring"} => ~pcall.is_union_type
    /\ pcall.what = "union" => pcall.is_union_type
    /\ pcall.what \in {"scalar", "struct", "array", "function", "nontype"}
         => ~pcall.is_union_type

\* C19: for a pointer type built by the POINTER of the profile, is-pointer
\* is true and is-pointer-to-struct, -union and -scalar are true exactly when
\* the pointee is a struct, a union and a scalar, with the host's pointers
\* and with the emulated ones.
C19_PointeePredicates ==
  (Classified /\ pcall.what = "pointer"
   /\ pcall.pointee \in {"scalar", "struct", "union"}) =>
    /\ pcall.is_pointer_type
    /\ pcall.is_pointer_to_struct_type <=> pcall.pointee = "struct"
    /\ pcall.is_pointer_to_union_type <=> pcall.pointee = "union"
    /\ pcall.is_pointer_to_basic_type <=> pcall.pointee = "scalar"

\* the part of C19 that holds: the pointers of a profile whose pointer has
\* the host's width, and is-pointer for all of them
C19_NativePointeePredicates ==
  (Classified /\ pcall.what = "pointer"
   /\ pcall.pointee \in {"scalar", "struct", "union"}) =>
    /\ pcall.is_pointer_type
    /\ pcall.nativePointer =>
         /\ pcall.is_pointer_to_struct_type <=> pcall.pointee = "struct"
         /\ pcall.is_pointer_to_union_type <=> pcall.pointee = "union"
         /\ pcall.is_pointer_to_basic_type <=> pcall.pointee = "scalar"

\* the number of predicates among is-scalar, is-pointer, is-array,
\* is-struct, is-union and is-opaque-string that hold for the type
Kinds(p) ==
  Cardinality({k \in {"is_basic_type", "is_pointer_type", "is_array_type",
                      "is_struct_type", "is_union_type", "is_cstring_type"} :
                 p[k]})

\* C20: at most one of is-scalar, is-pointer, is-array, is-struct, is-union
\* and is-opaque-string holds for a type, every is-pointer-to-X implies
\* is-pointer, the CString is no pointer, and an array of scalars or of
\* structs is neither pointer-to-scalar nor pointer-to-struct.
C20_Unambiguous ==
  Classified =>
    /\ Kinds(pcall) <= 1
    /\ (pcall.is_pointer_to_basic_type \/ pcall.is_pointer_to_struct_type
        \/ pcall.is_pointer_to_union_type) => pcall.is_pointer_type
    /\ pcall.what = "cstring" => ~pcall.is_pointer_type
    /\ pcall.what = "array" =>
         (~pcall.is_pointer_to_basic_type /\ ~pcall.is_pointer_to_struct_type)

\* the part of C20 that holds: apart from the CString, which is also a
\* pointer, no type has two of the six predicates
C20_UnambiguousButCString ==
  (Classified /\ pcall.what # "cstring") => Kinds(pcall) <= 1

====
